---- MODULE Spec2Model ----
(***************************************************************************)
(* Model of gpg-tui's application object (src/app/launcher.rs): the App    *)
(* aggregate, App::refresh, App::tick, App::run_command (one arm per       *)
(* Command variant) and the state-changing part of App::render.            *)
(*                                                                         *)
(* Indices are zero-based as in the Rust code; the i-th element of a Vec   *)
(* v is v[i + 1].  Option<T> is a sequence of length 0 (None) or 1 (Some). *)
(* A String is a sequence of pieces: single characters for typed text and  *)
(* record fields, whole fragments for the fixed parts of messages.         *)
(***************************************************************************)
EXTENDS Integers, Sequences, FiniteSets, TLC

\* Number of commands dispatched in one behaviour.
MaxSteps == 2
\* Number of commands dispatched in a session over a small alphabet.
MaxStepsFocused == 4
\* Number of commands dispatched in a session of overlay commands.
MaxStepsOverlay == 5
\* Number of entries of the key bindings list (KEY_BINDINGS).
NumKeyBindings == 3
\* launcher.rs:41
MESSAGE_DURATION == 1750

None == <<>>
Some(x) == <<x>>
IsSome(o) == Len(o) = 1
IsNone(o) == Len(o) = 0
Unwrap(o) == o[1]

Min2(x, y) == IF x < y THEN x ELSE y
Max2(x, y) == IF x < y THEN y ELSE x

(***************************************************************************)
(* Commands.  A Command value is a record of four strings: the variant tag *)
(* and up to three arguments.  Confirm(C) carries the tag and arguments of *)
(* its boxed command C.                                                    *)
(***************************************************************************)
Cmd(tag, x, y, z) == [tag |-> tag, a |-> x, b |-> y, c |-> z]
Cmd0(tag) == Cmd(tag, "", "", "")
Confirm(inner) == Cmd("Confirm", inner.tag, inner.a, inner.b)
Inner(command) == Cmd(command.a, command.b, command.c, "")

KeyTypes == {"pub", "sec"}
KeyIds == {"k1", "k2", "k3"}

(***************************************************************************)
(* Conversions (Rust's FromStr implementations), by their results on the   *)
(* values the model dispatches.                                            *)
(***************************************************************************)
BoolFromStr(s) ==
    CASE s = "true" -> Some(TRUE)
      [] s = "false" -> Some(FALSE)
      [] OTHER -> None
BoolToString(b) == IF b THEN "true" ELSE "false"

U16FromStr(s) ==
    CASE s = "0" -> Some(0)
      [] s = "1" -> Some(1)
      [] s = "2" -> Some(2)
      [] s = "80" -> Some(80)
      [] OTHER -> None
U16ToString(n) ==
    CASE n = 0 -> "0"
      [] n = 1 -> "1"
      [] n = 2 -> "2"
      [] n = 80 -> "80"
      [] OTHER -> "n"

ModeFromStr(s) ==
    CASE s = "normal" -> Some("Normal")
      [] s = "visual" -> Some("Visual")
      [] s = "copy" -> Some("Copy")
      [] OTHER -> None
ModeLower(m) ==
    CASE m = "Normal" -> "normal"
      [] m = "Visual" -> "visual"
      [] OTHER -> "copy"

\* KeyDetail: Minimum = 0, Standard = 1, Full = 2.
DetailMinimum == 0
DetailFull == 2
KeyDetailFromStr(s) ==
    CASE s = "minimum" -> Some(0)
      [] s = "standard" -> Some(1)
      [] s = "full" -> Some(2)
      [] OTHER -> None
KeyDetailToString(d) ==
    CASE d = 0 -> "minimum"
      [] d = 1 -> "standard"
      [] OTHER -> "full"
\* KeyDetail::increase: one level up, clamped at the maximum ordinal.
DetailIncrease(d) == Min2(d + 1, DetailFull)

\* WidgetColor::from(..).get(): an unparsable name yields the default color.
DefaultColor == "gray"
ColorFromStr(s) == IF s \in {"red", "gray"} THEN s ELSE DefaultColor

\* Path::exists on the paths the model uses.
PathExists(p) == p = "/tmp"

\* String contents of the strings the model passes where text is scanned.
Chars(s) ==
    CASE s = "" -> <<>>
      [] s = "a" -> <<"a">>
      [] s = "B" -> <<"B">>
      [] s = "zz" -> <<"z", "z">>
      [] s = ":import " -> <<":", "i", "m", "p", "o", "r", "t", " ">>
      [] s = "/a" -> <<"/", "a">>
      [] OTHER -> <<s>>

(***************************************************************************)
(* Records (GpgKey): an identifier and a detail level.  The two field      *)
(* groups of a record are fixed per identifier.                            *)
(***************************************************************************)
Key(id) == [id |-> id, detail |-> DetailMinimum]

SubkeyFields(id) ==
    CASE id = "k1" -> << <<"r", "a">>, <<"e", "x">>, <<"s", "x">> >>
      [] id = "k2" -> << <<"r", "b">>, <<"e", "y">>, <<"s", "y">> >>
      [] OTHER -> << <<"d", "c">>, <<"e", "w">>, <<"s", "w">> >>
UserFields(id) ==
    CASE id = "k1" -> << <<"A", "l">>, <<"u", "x">>, <<"v", "x">> >>
      [] id = "k2" -> << <<"B", "o">>, <<"u", "y">>, <<"v", "y">> >>
      [] OTHER -> << <<"C", "y">>, <<"a", "t">>, <<"v", "w">> >>

\* The fields shown at a detail level, each cut to its first segment when
\* the display is minimized.
Projected(fields, detail, minimized) ==
    [i \in 1..Min2(detail + 1, Len(fields)) |->
        IF minimized THEN SubSeq(fields[i], 1, 1) ELSE fields[i]]
get_subkey_info(key, minimized) == Projected(SubkeyFields(key.id), key.detail, minimized)
get_user_info(key, minimized) == Projected(UserFields(key.id), key.detail, minimized)

RECURSIVE Join(_)
\* lines.join("\n")
Join(lines) ==
    IF Len(lines) = 0 THEN <<>>
    ELSE IF Len(lines) = 1 THEN lines[1]
    ELSE lines[1] \o <<"\n">> \o Join(Tail(lines))

LowerChar(ch) ==
    CASE ch = "A" -> "a"
      [] ch = "B" -> "b"
      [] ch = "C" -> "c"
      [] OTHER -> ch
to_lowercase(s) == [i \in 1..Len(s) |-> LowerChar(s[i])]
contains(hay, needle) ==
    \E i \in 0..(Len(hay) - Len(needle)) : SubSeq(hay, i + 1, i + Len(needle)) = needle

Ids(items) == [i \in 1..Len(items) |-> items[i].id]

(***************************************************************************)
(* Prompt (app/prompt.rs).                                                 *)
(***************************************************************************)
COMMAND_PREFIX == ":"
SEARCH_PREFIX == "/"

PromptDefault == [text |-> <<>>, output_type |-> "None", clock |-> None, command |-> None]
\* Prompt::clear
PromptClear(p) == PromptDefault
\* Prompt::set_output: the message replaces the text and is time-stamped.
PromptSetOutput(p, output_type, message) ==
    [p EXCEPT !.text = message, !.output_type = output_type, !.clock = Some("now")]
\* Prompt::set_command: the command awaits confirmation and is displayed.
PromptSetCommand(p, command) ==
    [PromptSetOutput(p, "Action", <<"press 'y' to ", command.tag, command.a, command.b>>)
        EXCEPT !.command = Some(command)]
starts_with(text, prefix) == Len(text) > 0 /\ text[1] = prefix
is_search_enabled(p) == starts_with(p.text, SEARCH_PREFIX)
is_command_input_enabled(p) == starts_with(p.text, COMMAND_PREFIX)
\* Prompt::enable_command_input
PromptEnableCommandInput(p) == [PromptDefault EXCEPT !.text = <<COMMAND_PREFIX>>]
\* Prompt::enable_search: keeps a seeded query, otherwise the bare prefix.
PromptEnableSearch(p) ==
    [PromptDefault EXCEPT
        !.text = IF is_search_enabled(p) THEN p.text ELSE <<SEARCH_PREFIX>>]

(***************************************************************************)
(* StatefulTable (widget/table.rs) and StatefulList (widget/list.rs).      *)
(***************************************************************************)
TableStateDefault == [tui |-> None, scroll |-> 0]
\* StatefulTable::with_items
TableWithItems(items) ==
    [default_items |-> items, items |-> items,
     state |-> [tui |-> IF Len(items) = 0 THEN None ELSE Some(0), scroll |-> 0]]
\* StatefulTable::selected
TableSelected(t) ==
    IF IsSome(t.state.tui) /\ Unwrap(t.state.tui) < Len(t.items)
    THEN Some(t.items[Unwrap(t.state.tui) + 1])
    ELSE None
\* The index after moving by one step, clamped to [0, len - 1].
NextIndex(selected, len) ==
    IF IsNone(selected) THEN 0 ELSE Min2(Unwrap(selected) + 1, len - 1)
PreviousIndex(selected, len) ==
    IF IsNone(selected) THEN 0 ELSE Max2(Min2(Unwrap(selected), len - 1) - 1, 0)
\* StatefulTable::next / previous: no-op when empty, reset the scroll.
TableNext(t) ==
    IF Len(t.items) = 0 THEN t
    ELSE [t EXCEPT !.state = [tui |-> Some(NextIndex(t.state.tui, Len(t.items))), scroll |-> 0]]
TablePrevious(t) ==
    IF Len(t.items) = 0 THEN t
    ELSE [t EXCEPT !.state = [tui |-> Some(PreviousIndex(t.state.tui, Len(t.items))), scroll |-> 0]]
\* The largest scroll offset of a record: its lines beyond the first.
OverflowBound(key, minimized) ==
    Max2(Len(get_subkey_info(key, minimized)), Len(get_user_info(key, minimized))) - 1
\* StatefulTable::scroll_row: the selected record's offset, saturating.
TableScrollRow(t, direction, minimized) ==
    IF IsNone(TableSelected(t)) THEN t
    ELSE CASE direction = "Down" ->
                [t EXCEPT !.state.scroll =
                    Min2(t.state.scroll + 1, OverflowBound(Unwrap(TableSelected(t)), minimized))]
           [] direction = "Up" -> [t EXCEPT !.state.scroll = Max2(t.state.scroll - 1, 0)]
           [] OTHER -> t

\* StatefulList::with_items
ListWithItems(items) ==
    [items |-> items, selected |-> IF Len(items) = 0 THEN None ELSE Some(0)]
\* StatefulList::next / previous
ListNext(selected, len) == IF len = 0 THEN selected ELSE Some(NextIndex(selected, len))
ListPrevious(selected, len) == IF len = 0 THEN selected ELSE Some(PreviousIndex(selected, len))

(***************************************************************************)
(* Tab (app/tab.rs).                                                       *)
(***************************************************************************)
TabNext(t) ==
    CASE t = "pub" -> "sec"
      [] t = "sec" -> "help"
      [] OTHER -> "pub"
TabPrevious(t) ==
    CASE t = "pub" -> "help"
      [] t = "sec" -> "pub"
      [] OTHER -> "sec"
\* Tab::get_command
TabGetCommand(t) == IF t = "help" THEN Cmd0("ShowHelp") ELSE Cmd("ListKeys", t, "", "")

(***************************************************************************)
(* The engine (GpgContext): its configuration and the keyring it lists.    *)
(***************************************************************************)
FreshKeys(ids) == [i \in 1..Len(ids) |-> Key(ids[i])]
\* GpgContext::get_all_keys
get_all_keys(g) == [pub |-> FreshKeys(g.pub), sec |-> FreshKeys(g.sec)]
Without(ids, id) == SelectSeq(ids, LAMBDA x : x # id)
InSeq(ids, id) == \E i \in 1..Len(ids) : ids[i] = id
\* A key added to the public keyring by an import or a generated key.
ImportedKey == "k3"
EngineImport(g) == IF InSeq(g.pub, ImportedKey) THEN g ELSE [g EXCEPT !.pub = @ \o <<ImportedKey>>]
EngineDelete(g, key_type, id) == [g EXCEPT ![key_type] = Without(@, id)]
\* The text of an engine, subprocess or clipboard error.
ErrorText == "E"

(***************************************************************************)
(* The App aggregate as a value.  Besides App's fields the record carries  *)
(* the outcome of the call being evaluated: res ("ok", "err" for an Err    *)
(* return, "panic"), the external calls made, and run_command's local      *)
(* show_options.                                                           *)
(***************************************************************************)
Called(a, call) == [a EXCEPT !.calls = @ \cup {call}]
Panic(a) == [a EXCEPT !.res = "panic"]
SetOutput(a, output_type, message) ==
    [a EXCEPT !.prompt = PromptSetOutput(@, output_type, message)]

\* State::refresh
StateRefresh(st) == st

\* A refresh that keeps the cached table states.
refreshKeepsCache(a, e) ==
    LET a1 == Called([a EXCEPT !.state = StateRefresh(@),
                               !.mode = "Normal",
                               !.prompt = PromptClear(@),
                               !.options.selected = Some(0)], <<"get_all_keys">>)
    IN  IF ~e.list THEN [a1 EXCEPT !.res = "err"]
        ELSE LET fetched == get_all_keys(a.gpgme)
             IN [a1 EXCEPT !.keys = fetched,
                           !.keys_table_detail = DetailMinimum,
                           !.keys_table_margin = 1,
                           !.keys_table = IF a.tab = "help" THEN @
                                          ELSE TableWithItems(fetched[a.tab])]
\* App::refresh
refresh(a, e) ==
    LET a1 == Called([a EXCEPT !.state = StateRefresh(@),
                               !.mode = "Normal",
                               !.prompt = PromptClear(@),
                               !.options.selected = Some(0)], <<"get_all_keys">>)
    IN  IF ~e.list THEN [a1 EXCEPT !.res = "err"]
        ELSE LET fetched == get_all_keys(a.gpgme)
             IN [a1 EXCEPT !.keys = fetched,
                           !.keys_table_states = [k \in KeyTypes |-> None],
                           !.keys_table_detail = DetailMinimum,
                           !.keys_table_margin = 1,
                           !.keys_table = IF a.tab = "help" THEN @
                                          ELSE TableWithItems(fetched[a.tab])]

\* A preamble that leaves a pending confirmation in place.
PreambleKeepsPending(a, command) ==
    IF command.tag = "Confirm"
    THEN [a EXCEPT !.prompt = PromptSetCommand(@, Inner(command))]
    ELSE a
\* run_command, lines 151-155: a Confirm stores its command, any other
\* command clears a pending one.
Preamble(a, command) ==
    IF command.tag = "Confirm"
    THEN [a EXCEPT !.prompt = PromptSetCommand(@, Inner(command))]
    ELSE IF IsSome(a.prompt.command) THEN [a EXCEPT !.prompt = PromptClear(@)]
    ELSE a

\* Command::ShowHelp
ArmShowHelp(a) ==
    [a EXCEPT !.tab = "help",
              !.key_bindings = IF IsNone(@) THEN Some(0) ELSE @]

\* Command::ShowOutput
ArmShowOutput(a, command) == SetOutput(a, command.a, <<command.b>>)

\* The list built by Command::ShowOptions for the current tab.
OptionItems(a) ==
    LET visual == IF a.mode = "Visual" THEN Cmd("SwitchMode", "Normal", "", "")
                  ELSE Cmd("SwitchMode", "Visual", "", "")
    IN  IF a.tab = "help"
        THEN << Cmd0("None"), Cmd("ListKeys", "pub", "", ""), Cmd("ListKeys", "sec", "", ""),
                visual, Cmd0("Refresh"), Cmd0("Quit") >>
        ELSE LET id == Unwrap(TableSelected(a.keys_table)).id
             IN << Cmd0("None"), Cmd0("ShowHelp"), Cmd0("Refresh"), Cmd0("RefreshKeys"),
                   Cmd("Set", "prompt", ":import ", ""),
                   Cmd("Set", "prompt", ":receive ", ""),
                   Cmd("ExportKeys", a.tab, id, ""),
                   Cmd("ExportKeys", a.tab, "", ""),
                   Confirm(Cmd("DeleteKey", a.tab, id, "")),
                   Confirm(Cmd("SendKey", id, "", "")),
                   Cmd("EditKey", id, "", ""),
                   Cmd("SignKey", id, "", ""),
                   Cmd0("GenerateKey"),
                   Cmd("Set", "armor", BoolToString(~a.gpgme.armor), ""),
                   Cmd("Copy", "Key", "", ""),
                   Cmd("Copy", "KeyId", "", ""),
                   Cmd("Copy", "KeyFingerprint", "", ""),
                   Cmd("Copy", "KeyUserId", "", ""),
                   Cmd("Copy", "TableRow", "1", ""),
                   Cmd("Copy", "TableRow", "2", ""),
                   Cmd0("Paste"),
                   Cmd("ToggleDetail", "false", "", ""),
                   Cmd("ToggleDetail", "true", "", ""),
                   Cmd("Set", "margin", IF a.keys_table_margin = 1 THEN "0" ELSE "1", ""),
                   Cmd("Set", "minimized", BoolToString(~a.state.minimized), ""),
                   Cmd("Set", "colored", BoolToString(~a.state.colored), ""),
                   visual, Cmd0("Quit") >>

\* ShowOptions as it would be if it restored the previous cursor whatever the
\* length of the rebuilt list.
ArmShowOptionsKeepsCursor(a) ==
    LET prev_selection == a.options.selected
    IN  IF a.tab # "help" /\ IsNone(TableSelected(a.keys_table))
        THEN Panic(a)
        ELSE [a EXCEPT !.options =
                 [items |-> OptionItems(a),
                  selected |-> IF IsSome(prev_selection) THEN prev_selection ELSE Some(0)],
              !.show_options = TRUE]
\* Command::ShowOptions
ArmShowOptions(a) ==
    LET prev_selection == a.options.selected
        prev_item_count == Len(a.options.items)
    IN  IF a.tab # "help" /\ IsNone(TableSelected(a.keys_table))
        THEN Panic(a)   \* .expect("invalid selection")
        ELSE LET items == OptionItems(a)
             IN [a EXCEPT !.options =
                    [items |-> items,
                     selected |->
                        IF prev_item_count = 0 \/ Len(items) = prev_item_count
                        THEN (IF IsSome(prev_selection) THEN prev_selection ELSE Some(0))
                        ELSE Some(0)],
                 !.show_options = TRUE]

\* Command::ListKeys
ArmListKeys(a, key_type) ==
    LET a1 == IF a.tab = "help" THEN a
              ELSE [a EXCEPT !.keys_table_states[a.tab] = Some(a.keys_table.state),
                             !.keys[a.tab] = a.keys_table.default_items]
        table == TableWithItems(a1.keys[key_type])
    IN  [a1 EXCEPT !.keys_table =
                      IF IsSome(a1.keys_table_states[key_type])
                      THEN [table EXCEPT !.state = Unwrap(a1.keys_table_states[key_type])]
                      ELSE table,
                   !.tab = key_type]

\* Command::ImportKeys(keys, false)
ArmImportKeys(a, command, e) ==
    IF command.a = ""
    THEN SetOutput(a, "Failure", <<"no files given">>)
    ELSE LET a1 == Called(a, <<"import_keys", command.a>>)
         IN IF e.engine
            THEN LET a2 == refresh([a1 EXCEPT !.gpgme = EngineImport(@)], e)
                 IN IF a2.res # "ok" THEN a2
                    ELSE SetOutput(a2, "Success", <<"1", " keys imported">>)
            ELSE SetOutput(a1, "Failure", <<"import error: ", ErrorText>>)

\* Command::ExportKeys
ArmExportKeys(a, command, e) ==
    LET a1 == Called(a, <<"export_keys", command.a, command.b>>)
    IN  IF e.engine
        THEN SetOutput(a1, "Success", <<"export: ", a.gpgme.output_dir>>)
        ELSE SetOutput(a1, "Failure", <<"export error: ", ErrorText>>)

\* A DeleteKey arm that refreshes after a failed deletion too.
ArmDeleteKeyRefreshesOnError(a, command, e) ==
    LET a1 == Called(a, <<"delete_key", command.a, command.b>>)
    IN  IF e.engine /\ InSeq(a.gpgme[command.a], command.b)
        THEN refresh([a1 EXCEPT !.gpgme = EngineDelete(@, command.a, command.b)], e)
        ELSE SetOutput(refresh(a1, e), "Failure", <<"delete error: ", ErrorText>>)
\* Command::DeleteKey
ArmDeleteKey(a, command, e) ==
    LET a1 == Called(a, <<"delete_key", command.a, command.b>>)
    IN  IF e.engine /\ InSeq(a.gpgme[command.a], command.b)
        THEN refresh([a1 EXCEPT !.gpgme = EngineDelete(@, command.a, command.b)], e)
        ELSE SetOutput(a1, "Failure", <<"delete error: ", ErrorText>>)

\* Command::SendKey
ArmSendKey(a, command, e) ==
    LET a1 == Called(a, <<"send_key", command.a>>)
    IN  IF e.engine
        THEN SetOutput(a1, "Success", <<"key sent to the keyserver: 0x", command.a>>)
        ELSE SetOutput(a1, "Failure", <<"send error: ", ErrorText>>)

\* A subprocess arm that refreshes only when the subprocess changed the keyring.
ArmSubprocessChecksStatus(a, command, e) ==
    LET a1 == Called(a, <<"spawn", command.tag>>)
    IN  IF ~e.spawn
        THEN SetOutput(a1, "Failure", <<"execution error: ", ErrorText>>)
        ELSE LET a2 == Called(a1, <<"wait">>)
             IN IF ~e.wait THEN [a2 EXCEPT !.res = "err"]
                ELSE IF e.engine /\ command.tag \in {"GenerateKey", "ImportKeys"}
                THEN refresh([a2 EXCEPT !.gpgme = EngineImport(@)], e)
                ELSE a2
\* Command::GenerateKey | RefreshKeys | EditKey | SignKey | ImportKeys(_, true)
ArmSubprocess(a, command, e) ==
    LET a1 == Called(a, <<"spawn", command.tag>>)
    IN  IF ~e.spawn
        THEN SetOutput(a1, "Failure", <<"execution error: ", ErrorText>>)
        ELSE LET a2 == Called(a1, <<"wait">>)
             IN IF ~e.wait THEN [a2 EXCEPT !.res = "err"]
                ELSE refresh([a2 EXCEPT !.gpgme =
                                IF e.engine /\ command.tag \in {"GenerateKey", "ImportKeys"}
                                THEN EngineImport(@) ELSE @], e)

SetDetail(items, level) == [i \in 1..Len(items) |-> [items[i] EXCEPT !.detail = level]]
\* Vec::get_mut(index) followed by an update of the element's detail.
UpdateDetailAt(items, index, f) ==
    [i \in 1..Len(items) |->
        IF i = index + 1 THEN [items[i] EXCEPT !.detail = f[@]] ELSE items[i]]

\* A global toggle without the loop over default_items.
ArmToggleDetailItemsOnly(a) ==
    LET level == DetailIncrease(a.keys_table_detail)
    IN  [a EXCEPT !.keys_table_detail = level,
                  !.keys_table.items = SetDetail(@, level)]
\* Command::ToggleDetail(true)
ArmToggleDetailAll(a) ==
    LET level == DetailIncrease(a.keys_table_detail)
    IN  [a EXCEPT !.keys_table_detail = level,
                  !.keys_table.items = SetDetail(@, level),
                  !.keys_table.default_items = SetDetail(@, level)]

\* The detail update shared by ToggleDetail(false) and Set("detail", ..):
\* the selected element of items, and the element of default_items at the
\* same index when the two vectors have the same length.
UpdateSelectedDetail(a, f) ==
    IF IsNone(a.keys_table.state.tui) THEN a
    ELSE LET index == Unwrap(a.keys_table.state.tui)
         IN [a EXCEPT !.keys_table.items = UpdateDetailAt(@, index, f),
                      !.keys_table.default_items =
                          IF Len(a.keys_table.items) = Len(a.keys_table.default_items)
                          THEN UpdateDetailAt(@, index, f) ELSE @]

\* Command::ToggleDetail(false)
ArmToggleDetailSelected(a) ==
    UpdateSelectedDetail(a, [d \in DetailMinimum..DetailFull |-> DetailIncrease(d)])

\* Command::Scroll(direction, false)
ArmScroll(a, direction) ==
    IF direction \notin {"Down", "Up", "Top", "Bottom"} THEN a
    ELSE IF a.state.show_options
    THEN [a EXCEPT !.show_options = TRUE,
                   !.options.selected =
                       CASE direction = "Down" -> ListNext(@, Len(a.options.items))
                         [] direction = "Up" -> ListPrevious(@, Len(a.options.items))
                         [] direction = "Top" -> Some(0)
                         [] OTHER -> Some(Max2(Len(a.options.items) - 1, 0))]
    ELSE IF a.tab = "help"
    THEN [a EXCEPT !.key_bindings =
                       CASE direction = "Down" -> ListNext(@, NumKeyBindings)
                         [] direction = "Up" -> ListPrevious(@, NumKeyBindings)
                         [] direction = "Top" -> Some(0)
                         [] OTHER -> Some(NumKeyBindings - 1)]
    ELSE [a EXCEPT !.keys_table =
                       CASE direction = "Down" -> TableNext(@)
                         [] direction = "Up" -> TablePrevious(@)
                         [] direction = "Top" -> [a.keys_table EXCEPT !.state.tui = Some(0)]
                         [] OTHER -> [a.keys_table EXCEPT !.state.tui =
                                        Some(Max2(Len(a.keys_table.items) - 1, 0))]]

\* Command::Scroll(direction, true)
ArmScrollRow(a, direction) ==
    [a EXCEPT !.keys_table = TableScrollRow(@, direction, a.state.minimized)]

\* Command::Set, the arms per option name.
SetOptionOutput(a, value) ==
    IF PathExists(value)
    THEN SetOutput([a EXCEPT !.gpgme.output_dir = value], "Success",
                   <<"output directory: ", value>>)
    ELSE SetOutput(a, "Failure", <<"path does not exist">>)
SetOptionMode(a, value) ==
    IF IsSome(ModeFromStr(value))
    THEN SetOutput([a EXCEPT !.mode = Unwrap(ModeFromStr(value))], "Success",
                   <<"mode: ", ModeLower(Unwrap(ModeFromStr(value)))>>)
    ELSE SetOutput(a, "Failure", <<"invalid mode">>)
\* An armor arm that falls back to the default on an unparsable value.
SetOptionArmorDefaults(a, value) ==
    LET armor == IF IsSome(BoolFromStr(value)) THEN Unwrap(BoolFromStr(value)) ELSE FALSE
    IN  SetOutput([a EXCEPT !.gpgme.armor = armor], "Success",
                  <<"armor: ", BoolToString(armor)>>)
SetOptionArmor(a, value) ==
    IF IsSome(BoolFromStr(value))
    THEN SetOutput([a EXCEPT !.gpgme.armor = Unwrap(BoolFromStr(value))], "Success",
                   <<"armor: ", BoolToString(Unwrap(BoolFromStr(value)))>>)
    ELSE SetOutput(a, "Failure", <<"usage: ", "set armor <true/false>">>)
\* Set("minimized", ..) as it would be if it left the threshold alone.
SetOptionMinimizedKeepsThreshold(a, value) ==
    LET minimized == IF IsSome(BoolFromStr(value)) THEN Unwrap(BoolFromStr(value)) ELSE FALSE
    IN  SetOutput([a EXCEPT !.state.minimized = minimized],
                  "Success", <<"minimized: ", BoolToString(minimized)>>)
SetOptionMinimized(a, value) ==
    LET minimized == IF IsSome(BoolFromStr(value)) THEN Unwrap(BoolFromStr(value)) ELSE FALSE
    IN  SetOutput([a EXCEPT !.state.minimize_threshold = 0, !.state.minimized = minimized],
                  "Success", <<"minimized: ", BoolToString(minimized)>>)
SetOptionMinimize(a, value) ==
    LET threshold == IF IsSome(U16FromStr(value)) THEN Unwrap(U16FromStr(value)) ELSE 0
    IN  SetOutput([a EXCEPT !.state.minimize_threshold = threshold],
                  "Success", <<"minimize threshold: ", U16ToString(threshold)>>)
SetOptionDetail(a, value) ==
    IF IsSome(KeyDetailFromStr(value))
    THEN LET detail_level == Unwrap(KeyDetailFromStr(value))
         IN SetOutput(UpdateSelectedDetail(a, [d \in DetailMinimum..DetailFull |-> detail_level]), "Success",
                      <<"detail: ", KeyDetailToString(detail_level)>>)
    ELSE SetOutput(a, "Failure", <<"usage: ", "set detail <level>">>)
SetOptionMargin(a, value) ==
    LET margin == IF IsSome(U16FromStr(value)) THEN Unwrap(U16FromStr(value)) ELSE 0
    IN  SetOutput([a EXCEPT !.keys_table_margin = margin],
                  "Success", <<"table margin: ", U16ToString(margin)>>)
SetOptionColored(a, value) ==
    IF IsSome(BoolFromStr(value))
    THEN SetOutput([a EXCEPT !.state.colored = Unwrap(BoolFromStr(value))], "Success",
                   <<"colored: ", BoolToString(Unwrap(BoolFromStr(value)))>>)
    ELSE SetOutput(a, "Failure", <<"usage: ", "set colored <true/false>">>)
SetOptionColor(a, value) ==
    SetOutput([a EXCEPT !.state.color = ColorFromStr(value)], "Success",
              <<"color: ", ColorFromStr(value)>>)

\* Command::Set
ArmSet(a, option, value) ==
    IF option = "prompt"
       /\ (starts_with(Chars(value), COMMAND_PREFIX) \/ starts_with(Chars(value), SEARCH_PREFIX))
    THEN [a EXCEPT !.prompt = [PromptClear(@) EXCEPT !.text = Chars(value)]]
    ELSE CASE option = "output" -> SetOptionOutput(a, value)
           [] option = "mode" -> SetOptionMode(a, value)
           [] option = "armor" -> SetOptionArmor(a, value)
           [] option = "minimized" -> SetOptionMinimized(a, value)
           [] option = "minimize" -> SetOptionMinimize(a, value)
           [] option = "detail" -> SetOptionDetail(a, value)
           [] option = "margin" -> SetOptionMargin(a, value)
           [] option = "colored" -> SetOptionColored(a, value)
           [] option = "color" -> SetOptionColor(a, value)
           [] OTHER -> SetOutput(a, "Failure",
                                 IF option # "" THEN <<"unknown option: ", option>>
                                 ELSE <<"usage: ", "set <option> <value>">>)

\* Command::Get
ArmGet(a, option) ==
    CASE option = "output" -> SetOutput(a, "Success", <<"output directory: ", a.gpgme.output_dir>>)
      [] option = "mode" -> SetOutput(a, "Success", <<"mode: ", ModeLower(a.mode)>>)
      [] option = "armor" -> SetOutput(a, "Success", <<"armor: ", BoolToString(a.gpgme.armor)>>)
      [] option = "minimized" ->
            SetOutput(a, "Success", <<"minimized: ", BoolToString(a.state.minimized)>>)
      [] option = "minimize" ->
            SetOutput(a, "Success",
                      <<"minimize threshold: ", U16ToString(a.state.minimize_threshold)>>)
      [] option = "detail" ->
            IF IsNone(a.keys_table.state.tui)
            THEN SetOutput(a, "Failure", <<"unknown selection">>)
            ELSE IF IsNone(TableSelected(a.keys_table))
            THEN SetOutput(a, "Failure", <<"invalid selection">>)
            ELSE SetOutput(a, "Success",
                           <<"detail: ", KeyDetailToString(Unwrap(TableSelected(a.keys_table)).detail)>>)
      [] option = "margin" ->
            SetOutput(a, "Success", <<"table margin: ", U16ToString(a.keys_table_margin)>>)
      [] option = "colored" ->
            SetOutput(a, "Success", <<"colored: ", BoolToString(a.state.colored)>>)
      [] option = "color" -> SetOutput(a, "Success", <<"color: ", a.state.color>>)
      [] OTHER -> SetOutput(a, "Failure",
                            IF option # "" THEN <<"unknown option: ", option>>
                            ELSE <<"usage: ", "get <option>">>)

\* Command::SwitchMode
ArmSwitchMode(a, mode_) ==
    IF ~(mode_ = "Copy" /\ Len(a.keys_table.items) = 0)
    THEN SetOutput([a EXCEPT !.mode = mode_], "Action", <<"-- ", mode_, " --">>)
    ELSE a

\* Command::Copy
ArmCopy(a, command, e) ==
    IF IsNone(TableSelected(a.keys_table)) THEN Panic(a)   \* .expect("invalid selection")
    ELSE
    LET selected_key == Unwrap(TableSelected(a.keys_table))
        engine_call == command.a = "Key"
        a1 == IF engine_call
              THEN Called(a, <<"get_exported_keys", IF a.tab = "help" THEN "pub" ELSE a.tab,
                               selected_key.id>>)
              ELSE a
        content ==
            CASE command.a = "TableRow" /\ command.b = "1" ->
                    Some(Join(get_subkey_info(selected_key, a.state.minimized)))
              [] command.a = "TableRow" /\ command.b = "2" ->
                    Some(Join(get_user_info(selected_key, a.state.minimized)))
              [] command.a = "TableRow" -> None
              [] command.a = "Key" -> IF e.engine THEN Some(<<"key:", selected_key.id>>) ELSE None
              [] command.a = "KeyId" -> Some(<<selected_key.id>>)
              [] command.a = "KeyFingerprint" -> Some(<<"fpr:", selected_key.id>>)
              [] OTHER -> Some(<<"uid:", selected_key.id>>)
        a2 == IF IsNone(content)
              THEN SetOutput(a1, "Failure",
                             <<"copy error: ",
                               IF engine_call THEN ErrorText ELSE "invalid row number">>)
              ELSE IF a.clipboard.present
              THEN (IF e.clip
                    THEN SetOutput([a1 EXCEPT !.clipboard.contents = Unwrap(content)],
                                   "Success", <<command.a, command.b, " copied to clipboard">>)
                    ELSE Panic(a1))   \* .expect("failed to set clipboard contents")
              ELSE SetOutput(a1, "Failure", <<"clipboard not available">>)
    IN  IF a2.res = "panic" THEN a2 ELSE [a2 EXCEPT !.mode = "Normal"]

\* Command::Paste
ArmPaste(a, e) ==
    IF a.clipboard.present
    THEN IF e.clip
         THEN [a EXCEPT !.prompt =
                  [PromptClear(@) EXCEPT !.text = <<COMMAND_PREFIX>> \o a.clipboard.contents]]
         ELSE Panic([a EXCEPT !.prompt = PromptClear(@)])
              \* .expect("failed to get clipboard contents")
    ELSE SetOutput(a, "Failure", <<"clipboard not available">>)

\* Command::EnableInput
ArmEnableInput(a) == [a EXCEPT !.prompt = PromptEnableCommandInput(@)]

\* A Search arm that reloads the visible records from the public keys.
ArmSearchFromPublic(a, query) ==
    [a EXCEPT !.prompt = PromptEnableSearch([@ EXCEPT !.text = <<SEARCH_PREFIX>> \o Chars(query)]),
              !.keys_table.items = a.keys["pub"]]
\* Command::Search
ArmSearch(a, query) ==
    [a EXCEPT !.prompt = PromptEnableSearch([@ EXCEPT !.text = <<SEARCH_PREFIX>> \o Chars(query)]),
              !.keys_table.items = a.keys_table.default_items]

\* Command::Quit
ArmQuit(a) == [a EXCEPT !.state.running = FALSE]

\* A Confirm arm that runs the boxed deletion at once.
ArmConfirmExecutes(a, command, e) ==
    IF command.tag = "Confirm" /\ command.a = "DeleteKey"
    THEN ArmDeleteKey(a, Inner(command), e)
    ELSE a
\* Command::Confirm(_) | Command::None
ArmConfirm(a, command, e) == a

\* The arm of run_command's match for a command other than NextTab and
\* PreviousTab.
Arm(a, command, e) ==
    CASE command.tag = "ShowHelp" -> ArmShowHelp(a)
      [] command.tag = "ShowOutput" -> ArmShowOutput(a, command)
      [] command.tag = "ShowOptions" -> ArmShowOptions(a)
      [] command.tag = "ListKeys" -> ArmListKeys(a, command.a)
      [] command.tag = "ImportKeys" /\ command.b = "false" -> ArmImportKeys(a, command, e)
      [] command.tag = "ExportKeys" -> ArmExportKeys(a, command, e)
      [] command.tag = "DeleteKey" -> ArmDeleteKey(a, command, e)
      [] command.tag = "SendKey" -> ArmSendKey(a, command, e)
      [] command.tag \in {"GenerateKey", "RefreshKeys", "EditKey", "SignKey"}
            \/ (command.tag = "ImportKeys" /\ command.b # "false") ->
            ArmSubprocess(a, command, e)
      [] command.tag = "ToggleDetail" /\ command.a = "true" -> ArmToggleDetailAll(a)
      [] command.tag = "ToggleDetail" /\ command.a # "true" -> ArmToggleDetailSelected(a)
      [] command.tag = "Scroll" /\ command.b = "false" -> ArmScroll(a, command.a)
      [] command.tag = "Scroll" /\ command.b # "false" -> ArmScrollRow(a, command.a)
      [] command.tag = "Set" -> ArmSet(a, command.a, command.b)
      [] command.tag = "Get" -> ArmGet(a, command.a)
      [] command.tag = "SwitchMode" -> ArmSwitchMode(a, command.a)
      [] command.tag = "Copy" -> ArmCopy(a, command, e)
      [] command.tag = "Paste" -> ArmPaste(a, e)
      [] command.tag = "EnableInput" -> ArmEnableInput(a)
      [] command.tag = "Search" -> ArmSearch(a, command.a)
      [] command.tag = "Refresh" -> refresh(a, e)
      [] command.tag = "Quit" -> ArmQuit(a)
      [] OTHER -> ArmConfirm(a, command, e)

\* run_command, line 816: reached unless the arm returned early or panicked.
Epilogue(a) ==
    IF a.res = "ok" THEN [a EXCEPT !.state.show_options = a.show_options] ELSE a

\* App::run_command for a command other than NextTab and PreviousTab.
RunPlain(a, command, e) ==
    Epilogue(Arm(Preamble([a EXCEPT !.show_options = FALSE], command), command, e))

\* App::run_command.  NextTab and PreviousTab run the command of the
\* neighbouring tab in a nested call and propagate its result.
run_command(a, command, e) ==
    IF command.tag \in {"NextTab", "PreviousTab"}
    THEN LET a1 == Preamble([a EXCEPT !.show_options = FALSE], command)
             target == IF command.tag = "NextTab" THEN TabNext(a.tab) ELSE TabPrevious(a.tab)
             a2 == RunPlain(a1, TabGetCommand(target), e)
         IN Epilogue([a2 EXCEPT !.show_options = FALSE])
    ELSE RunPlain(a, command, e)

(***************************************************************************)
(* The state machine: the fields of App, the engine's keyring behind       *)
(* gpgme, and a record of the last step taken.                             *)
(***************************************************************************)
VARIABLES
    state,              \* App::state (running, show_options, minimized, ...)
    mode,               \* App::mode
    prompt,             \* App::prompt
    tab,                \* App::tab: "pub", "sec" (Tab::Keys) or "help"
    options,            \* App::options: items and cursor
    key_bindings,       \* App::key_bindings: the cursor of the help list
    keys,               \* App::keys
    keys_table,         \* App::keys_table
    keys_table_states,  \* App::keys_table_states
    keys_table_detail,  \* App::keys_table_detail
    keys_table_margin,  \* App::keys_table_margin
    clipboard,          \* App::clipboard: present or not, and its contents
    gpgme,              \* App::gpgme: configuration and the engine's keyring
    cmd,                \* the last command dispatched
    prev,               \* the command dispatched before it
    calls,              \* the external calls made by the last run_command
    res,                \* how the last run_command ended: "ok", "err", "panic"
    steps,              \* number of commands dispatched
    env,                \* the outcomes the external calls of the last command had
    left,               \* per category, the table as it was when its view was last left
    family              \* the alphabet the session's commands are drawn from

appvars == <<state, mode, prompt, tab, options, key_bindings, keys, keys_table,
             keys_table_states, keys_table_detail, keys_table_margin, clipboard, gpgme>>
vars == <<state, mode, prompt, tab, options, key_bindings, keys, keys_table,
          keys_table_states, keys_table_detail, keys_table_margin, clipboard, gpgme,
          cmd, prev, calls, res, steps, env, left, family>>

\* The App object of the current state, at the entry of a call.
App ==
    [state |-> state, mode |-> mode, prompt |-> prompt, tab |-> tab, options |-> options,
     key_bindings |-> key_bindings, keys |-> keys, keys_table |-> keys_table,
     keys_table_states |-> keys_table_states, keys_table_detail |-> keys_table_detail,
     keys_table_margin |-> keys_table_margin, clipboard |-> clipboard, gpgme |-> gpgme,
     res |-> "ok", calls |-> {}, show_options |-> FALSE]

\* The App object of the next state.
Becomes(a) ==
    /\ state' = a.state
    /\ mode' = a.mode
    /\ prompt' = a.prompt
    /\ tab' = a.tab
    /\ options' = a.options
    /\ key_bindings' = a.key_bindings
    /\ keys' = a.keys
    /\ keys_table' = a.keys_table
    /\ keys_table_states' = a.keys_table_states
    /\ keys_table_detail' = a.keys_table_detail
    /\ keys_table_margin' = a.keys_table_margin
    /\ clipboard' = a.clipboard
    /\ gpgme' = a.gpgme
    /\ calls' = a.calls
    /\ res' = a.res

\* App::new, for the keyrings and clipboard the model starts from, in a
\* session of family f.
InitFamily(f) ==
    /\ \E sec \in {<<>>, <<"k1">>} :
         gpgme = [armor |-> FALSE, output_dir |-> "/out", pub |-> <<"k1", "k2">>, sec |-> sec]
    /\ keys = get_all_keys(gpgme)
    /\ keys_table = TableWithItems(keys["pub"])
    /\ state = [running |-> TRUE, show_options |-> FALSE, minimized |-> FALSE,
                minimize_threshold |-> 0, colored |-> FALSE, color |-> DefaultColor]
    /\ mode = "Normal"
    /\ prompt = PromptDefault
    /\ tab = "pub"
    /\ options = ListWithItems(<<>>)
    /\ key_bindings = Some(0)
    /\ keys_table_states = [k \in KeyTypes |-> None]
    /\ keys_table_detail = DetailMinimum
    /\ keys_table_margin = 1
    /\ \E present \in BOOLEAN : clipboard = [present |-> present, contents |-> <<>>]
    /\ cmd = Cmd0("None")
    /\ prev = Cmd0("None")
    /\ calls = {}
    /\ res = "ok"
    /\ steps = 0
    /\ env = [x \in {"list", "engine", "spawn", "wait", "clip"} |-> TRUE]
    /\ left = [k \in KeyTypes |-> None]
    /\ family = f

(***************************************************************************)
(* The outcomes of the external calls a command can make: the engine's     *)
(* listing (list), its other operations (engine), the subprocess (spawn,   *)
(* wait) and the clipboard (clip).                                         *)
(***************************************************************************)
EnvFields == {"list", "engine", "spawn", "wait", "clip"}
Uses(command) ==
    CASE command.tag = "Refresh" -> {"list"}
      [] command.tag \in {"DeleteKey"} -> {"engine", "list"}
      [] command.tag = "ImportKeys" /\ command.b = "false" -> {"engine", "list"}
      [] command.tag \in {"ExportKeys", "SendKey"} -> {"engine"}
      [] command.tag \in {"GenerateKey", "ImportKeys"} -> {"spawn", "wait", "engine", "list"}
      [] command.tag \in {"RefreshKeys", "EditKey", "SignKey"} -> {"spawn", "wait", "list"}
      [] command.tag = "Copy" /\ command.a = "Key" -> {"engine", "clip"}
      [] command.tag \in {"Copy", "Paste"} -> {"clip"}
      [] OTHER -> {}
Envs(command) ==
    {e \in [EnvFields -> BOOLEAN] : \A f \in EnvFields \ Uses(command) : e[f]}

\* The commands the model dispatches.
SetValues(option) ==
    CASE option = "output" -> {"/tmp", "/nope"}
      [] option = "mode" -> {"visual", "copy", "bogus"}
      [] option = "armor" -> {"true", "false", "notabool"}
      [] option = "minimized" -> {"true", "x"}
      [] option = "minimize" -> {"80", "x"}
      [] option = "detail" -> {"full", "x"}
      [] option = "margin" -> {"2", "x"}
      [] option = "colored" -> {"true", "x"}
      [] option = "color" -> {"red", "x"}
      [] option = "prompt" -> {":import ", "/a", "plain"}
      [] OTHER -> {"1"}
OptionNames ==
    {"output", "mode", "armor", "minimized", "minimize", "detail", "margin", "colored", "color"}
SetCommands ==
    {Cmd("Set", o, v, "") : <<o, v>> \in
        UNION {{<<o, v>> : v \in SetValues(o)} : o \in OptionNames \cup {"prompt", "foo", ""}}}
GetCommands == {Cmd("Get", o, "", "") : o \in OptionNames \cup {"foo", ""}}
DeleteCommands ==
    {Cmd("DeleteKey", "pub", "k1", ""), Cmd("DeleteKey", "pub", "k2", ""),
     Cmd("DeleteKey", "sec", "k1", "")}
SubprocessCommands ==
    {Cmd0("GenerateKey"), Cmd0("RefreshKeys"), Cmd("EditKey", "k1", "", ""),
     Cmd("SignKey", "k1", "", ""), Cmd("ImportKeys", "f", "true", "")}
ScrollCommands ==
    {Cmd("Scroll", d, "false", "") : d \in {"Up", "Down", "Top", "Bottom", "Right"}}
ScrollRowCommands == {Cmd("Scroll", d, "true", "") : d \in {"Up", "Down"}}
CopyCommands ==
    {Cmd("Copy", t, "", "") : t \in {"Key", "KeyId", "KeyFingerprint", "KeyUserId"}}
    \cup {Cmd("Copy", "TableRow", n, "") : n \in {"1", "2", "3"}}
PlainCommands ==
    {Cmd0("ShowHelp"), Cmd("ShowOutput", "Success", "hello", ""), Cmd0("ShowOptions"),
     Cmd("ListKeys", "pub", "", ""), Cmd("ListKeys", "sec", "", ""),
     Cmd("ImportKeys", "", "false", ""), Cmd("ImportKeys", "f", "false", ""),
     Cmd("ExportKeys", "pub", "k1", ""), Cmd("ExportKeys", "pub", "", ""),
     Cmd("SendKey", "k1", "", ""),
     Cmd("ToggleDetail", "true", "", ""), Cmd("ToggleDetail", "false", "", ""),
     Cmd("SwitchMode", "Normal", "", ""), Cmd("SwitchMode", "Visual", "", ""),
     Cmd("SwitchMode", "Copy", "", ""),
     Cmd0("Paste"), Cmd0("EnableInput"),
     Cmd("Search", "", "", ""), Cmd("Search", "a", "", ""), Cmd("Search", "B", "", ""),
     Cmd("Search", "zz", "", ""),
     Cmd0("NextTab"), Cmd0("PreviousTab"), Cmd0("Refresh"), Cmd0("Quit"), Cmd0("None")}
    \cup SetCommands \cup GetCommands \cup DeleteCommands \cup SubprocessCommands
    \cup ScrollCommands \cup ScrollRowCommands \cup CopyCommands
\* Confirm wraps one command of every variant, and every deletion.
Confirmable ==
    DeleteCommands \cup
    {c \in PlainCommands :
        /\ c.tag \notin {"DeleteKey", "Set", "Get", "Copy", "Search"}
        /\ c.a \in {"", "Success", "pub", "f", "k1", "true", "Down", "Copy"}}
    \cup {Cmd("Set", "armor", "true", ""), Cmd("Get", "armor", "", ""),
          Cmd("Copy", "KeyId", "", ""), Cmd("Search", "a", "", "")}
ConfirmCommands == {Confirm(c) : c \in Confirmable}
Commands == PlainCommands \cup ConfirmCommands
WithTag(tags) == {c \in Commands : c.tag \in tags}

\* Sessions of detail toggles: the two toggles, with the navigation, search
\* and category switches that choose the records they act on.
DetailCommands ==
    {Cmd("ToggleDetail", "true", "", ""), Cmd("ToggleDetail", "false", "", ""),
     Cmd("Scroll", "Down", "false", ""), Cmd("Scroll", "Up", "false", ""),
     Cmd("Search", "B", "", ""), Cmd("ListKeys", "pub", "", ""),
     Cmd("ListKeys", "sec", "", ""), Cmd0("ShowHelp")}

\* Sessions around the options overlay: opening it, moving a cursor (the
\* overlay's while it is open, the table's otherwise), closing it with a
\* command that does nothing else, and changing the category.
OverlayCommands ==
    {Cmd0("ShowOptions"), Cmd("Scroll", "Down", "false", ""), Cmd("Scroll", "Up", "false", ""),
     Cmd("Scroll", "Bottom", "false", ""), Cmd0("None"), Cmd("ListKeys", "sec", "", ""),
     Cmd0("ShowHelp"), Cmd0("Refresh")}

\* Sessions of navigation: scrolls of the selection and of the row, with
\* the commands that choose their target (overlay, help list or table),
\* give the records more than one line and switch the category.
NavigationCommands ==
    {Cmd("Scroll", d, "false", "") : d \in {"Up", "Down", "Top", "Bottom"}}
    \cup {Cmd("Scroll", d, "true", "") : d \in {"Up", "Down"}}
    \cup {Cmd("ToggleDetail", "true", "", ""), Cmd("ToggleDetail", "false", "", ""),
          Cmd0("ShowOptions"), Cmd0("ShowHelp"),
          Cmd("ListKeys", "pub", "", ""), Cmd("ListKeys", "sec", "", "")}

\* The commands a session draws from, and how many it dispatches.
Alphabet(f) ==
    CASE f = "detail" -> DetailCommands
      [] f = "navigation" -> NavigationCommands
      [] f = "overlay" -> OverlayCommands
      [] OTHER -> Commands
Budget(f) ==
    CASE f = "all" -> MaxSteps
      [] f = "overlay" -> MaxStepsOverlay
      [] OTHER -> MaxStepsFocused

\* The event loop hands the next command to run_command.
Alive == state.running /\ res # "panic"
Dispatch(command) ==
    /\ Alive
    /\ steps < Budget(family)
    /\ \E e \in Envs(command) : Becomes(run_command(App, command, e)) /\ env' = e
    /\ left' = IF <<"get_all_keys">> \in calls' THEN [k \in KeyTypes |-> None]
               ELSE IF tab # "help" /\ tab' # tab THEN [left EXCEPT ![tab] = Some(keys_table)]
               ELSE left
    /\ cmd' = command
    /\ prev' = cmd
    /\ steps' = steps + 1
    /\ UNCHANGED family

\* A command arrives: any command of the session's alphabet.
RunCommand == \E command \in Alphabet(family) : Dispatch(command)

\* The filter of get_keys_table_rows (lines 1215-1281): under a search, the
\* records whose subkey or user text contains the search term.
IsVisible(key, p, minimized) ==
    is_search_enabled(p) =>
        LET search_term == to_lowercase(Tail(p.text))
        IN  contains(to_lowercase(Join(get_subkey_info(key, minimized))), search_term)
            \/ contains(to_lowercase(Join(get_user_info(key, minimized))), search_term)
get_keys_table_rows(a) ==
    [a EXCEPT !.keys_table.items =
        SelectSeq(@, LAMBDA key : IsVisible(key, a.prompt, a.state.minimized))]

\* App::render on a terminal of the given width.
render(a, width) ==
    LET a1 == IF a.state.minimize_threshold # 0
              THEN [a EXCEPT !.state.minimized = width < a.state.minimize_threshold]
              ELSE a
    IN  IF a1.tab = "help" THEN a1 ELSE get_keys_table_rows(a1)

Widths == {79, 80}
Render ==
    /\ Alive
    /\ \E width \in Widths :
         Becomes([render(App, width) EXCEPT !.res = res, !.calls = calls])
    /\ UNCHANGED <<cmd, prev, steps, env, left, family>>

\* A tick that expires the message under a pending confirmation too.
tickIgnoresPending(a, elapsed) ==
    IF IsSome(a.prompt.clock) /\ elapsed > MESSAGE_DURATION
    THEN [a EXCEPT !.prompt = PromptClear(@)]
    ELSE a
\* App::tick, given the time elapsed on the prompt's clock.
tick(a, elapsed) ==
    IF IsSome(a.prompt.clock) /\ elapsed > MESSAGE_DURATION /\ IsNone(a.prompt.command)
    THEN [a EXCEPT !.prompt = PromptClear(@)]
    ELSE a

\* A tick event.  The clock holds the instant of the message; the time
\* elapsed since then is whatever the environment let pass.
Tick ==
    /\ Alive
    /\ \E elapsed \in {MESSAGE_DURATION, MESSAGE_DURATION + 1} :
         Becomes([tick(App, elapsed) EXCEPT !.res = res, !.calls = calls])
    /\ UNCHANGED <<cmd, prev, steps, env, left, family>>

Next == RunCommand \/ Render \/ Tick

Init == InitFamily("all")
Spec == Init /\ [][Next]_vars

InitDetail == InitFamily("detail")
SpecDetail == InitDetail /\ [][Next]_vars

InitNavigation == InitFamily("navigation")
SpecNavigation == InitNavigation /\ [][Next]_vars

InitOverlay == InitFamily("overlay")
SpecOverlay == InitOverlay /\ [][Next]_vars

\* A step that dispatches a command.
Dispatched == steps' = steps + 1

(***************************************************************************)
(* Properties.                                                             *)
(***************************************************************************)
IsDelete(call) == call[1] = "delete_key"
SelectionDependent(command) ==
    \/ command.tag \in {"Copy", "ShowOptions"}
    \/ command.tag = "ToggleDetail" /\ command.a = "false"

RECURSIVE IsSubsequence(_, _)
\* s is t with some elements left out, order kept.
IsSubsequence(s, t) ==
    IF Len(s) = 0 THEN TRUE
    ELSE IF Len(t) = 0 THEN FALSE
    ELSE IF s[1] = t[1] THEN IsSubsequence(Tail(s), Tail(t))
    ELSE IsSubsequence(s, Tail(t))

\* C1: dispatching Confirm(C) leaves C as the pending confirmation and does
\* not execute it: the dispatch makes no engine or subprocess call and
\* leaves the key map, the record table, the tab and the mode as they were.
C1_ConfirmOnlyStores ==
    [][(Dispatched /\ cmd'.tag = "Confirm") =>
        /\ prompt'.command = Some(Inner(cmd'))
        /\ calls' = {}
        /\ res' = "ok"
        /\ keys' = keys
        /\ keys_table' = keys_table
        /\ tab' = tab
        /\ mode' = mode]_vars
\* A confirmed deletion of an existing key is pending, after another command.
C1_Witness ==
    /\ steps = 2
    /\ cmd = Confirm(Cmd("DeleteKey", "pub", "k1", ""))
    /\ prompt.command = Some(Cmd("DeleteKey", "pub", "k1", ""))
    /\ InSeq(gpgme.pub, "k1")

\* The command that followed a Confirm(DeleteKey(cat, id)) is neither a
\* Confirm nor that DeleteKey.
AfterConfirmedDelete ==
    /\ steps >= 2
    /\ prev.tag = "Confirm"
    /\ prev.a = "DeleteKey"
    /\ cmd.tag # "Confirm"
    /\ cmd # Inner(prev)
\* C2 as stated: after Confirm(DeleteKey(cat, id)) and a next command that
\* is neither a Confirm nor that DeleteKey, no confirmation is pending and
\* the engine's delete has not been invoked.
C2_Original ==
    AfterConfirmedDelete => IsNone(prompt.command) /\ ~\E call \in calls : IsDelete(call)
\* C2, amended: after Confirm(DeleteKey(cat, id)) and such a next command, no
\* confirmation is pending and the engine's delete has not been invoked for
\* (cat, id); it is invoked at all only when the next command is itself a
\* DeleteKey, of another key.
C2_PendingDeleteCancelled ==
    AfterConfirmedDelete =>
        /\ IsNone(prompt.command)
        /\ \A call \in calls :
              IsDelete(call) =>
                  /\ cmd.tag = "DeleteKey"
                  /\ call = <<"delete_key", cmd.a, cmd.b>>
                  /\ <<cmd.a, cmd.b>> # <<prev.b, prev.c>>
\* A navigation command followed the confirmation of an existing key's deletion.
C2_Witness ==
    /\ AfterConfirmedDelete
    /\ prev = Confirm(Cmd("DeleteKey", "pub", "k1", ""))
    /\ cmd = Cmd("Scroll", "Down", "false", "")
    /\ InSeq(gpgme.pub, "k1")
    /\ IsNone(prompt.command)

\* C3: on an empty active category the table has no items and no selected
\* record, and a selection-dependent command (Copy, per-record ToggleDetail,
\* ShowOptions) is a no-op or sets a failure message: it never panics.
C3_NoPanicOnEmptyCategory ==
    (tab # "help" /\ Len(keys_table.default_items) = 0) =>
        /\ Len(keys_table.items) = 0
        /\ IsNone(TableSelected(keys_table))
        /\ (steps > 0 /\ SelectionDependent(cmd) => res # "panic")

\* C4: the selection index of the record table, when present, is less than
\* the number of items.
C4_SelectionInRange ==
    IsSome(keys_table.state.tui) => Unwrap(keys_table.state.tui) < Len(keys_table.items)

\* C5: the items of the record table are an order-preserving subsequence,
\* by record identifier, of its default_items.
C5_ItemsSubsequence == IsSubsequence(Ids(keys_table.items), Ids(keys_table.default_items))
\* A search has narrowed the table to its second record.
C5_Witness ==
    /\ Ids(keys_table.default_items) = <<"k1", "k2">>
    /\ Ids(keys_table.items) = <<"k2">>

\* C6: once the prompt is no longer in search mode the filtered view has
\* been discarded: items is default_items again, in the original order.
C6_RestoredOutsideSearch ==
    ~is_search_enabled(prompt) => Ids(keys_table.items) = Ids(keys_table.default_items)

\* No record of a vector has a lower detail level afterwards, and a record
\* at the maximum level stays there.
NotLowered(before, after) ==
    /\ Len(after) = Len(before)
    /\ \A i \in 1..Len(before) :
          /\ after[i].detail >= before[i].detail
          /\ before[i].detail = DetailFull => after[i].detail = DetailFull
C8_ArmorSetGet ==
    [][/\ (Dispatched /\ steps > 0 /\ cmd.tag = "Set" /\ cmd.a = "armor"
            /\ cmd.b \in {"true", "false"} /\ cmd' = Cmd("Get", "armor", "", ""))
          => /\ prompt'.text = <<"armor: ", cmd.b>>
             /\ prompt'.output_type = "Success"
       /\ (Dispatched /\ cmd'.tag = "Set" /\ cmd'.a = "armor" /\ cmd'.b \notin {"true", "false"})
          => /\ gpgme'.armor = gpgme.armor
             /\ prompt'.output_type = "Failure"
             /\ prompt'.text = <<"usage: ", "set armor <true/false>">>]_vars
\* Get("armor") has reported the value that Set("armor", "true") stored.
C8_Witness ==
    /\ steps = 2
    /\ prev = Cmd("Set", "armor", "true", "")
    /\ cmd = Cmd("Get", "armor", "", "")
    /\ gpgme.armor
    /\ prompt.text = <<"armor: ", "true">>

\* The values that do not parse for an option's type.
InvalidValue(option, value) ==
    CASE option = "mode" -> IsNone(ModeFromStr(value))
      [] option \in {"armor", "minimized", "colored"} -> IsNone(BoolFromStr(value))
      [] option \in {"minimize", "margin"} -> IsNone(U16FromStr(value))
      [] option = "detail" -> IsNone(KeyDetailFromStr(value))
      [] option = "color" -> value \notin {"red", "gray"}
      [] OTHER -> FALSE
\* Everything of App but the prompt and the overlay's visibility.
BesidesPrompt ==
    <<[state EXCEPT !.show_options = FALSE], mode, tab, options, key_bindings, keys,
      keys_table, keys_table_states, keys_table_detail, keys_table_margin, clipboard, gpgme>>
\* C9: Set of a recognized option with a value that does not parse for the
\* option's type sets a Failure message with a usage hint and changes no
\* option value and no other state.
C9_InvalidSetRejected ==
    [][(Dispatched /\ cmd'.tag = "Set" /\ cmd'.a \in OptionNames
            /\ InvalidValue(cmd'.a, cmd'.b)) =>
        /\ prompt'.output_type = "Failure"
        /\ starts_with(prompt'.text, "usage: ")
        /\ BesidesPrompt' = BesidesPrompt]_vars

\* The cursor ShowOptions leaves on a rebuilt list, given the previous list.
RestoredCursor(previous, items) ==
    IF Len(previous.items) = 0 \/ Len(items) = Len(previous.items)
    THEN (IF IsSome(previous.selected) THEN previous.selected ELSE Some(0))
    ELSE Some(0)
\* C10: ShowOptions rebuilds the overlay list and keeps the cursor if the
\* previous list was empty or as long as the new one, and otherwise puts it
\* on the first item; a second ShowOptions with no state change in between
\* yields the same list and the same cursor.
C10_ShowOptionsCursor ==
    [][(Dispatched /\ cmd'.tag = "ShowOptions") =>
        /\ state'.show_options
        /\ options'.items = OptionItems(App)
        /\ options'.selected = RestoredCursor(options, options'.items)
        /\ (steps > 0 /\ cmd.tag = "ShowOptions" /\ options.items = options'.items)
              => options' = options]_vars
\* C10 for the dispatches of ShowOptions that return.
C10_WhenReturning ==
    [][(Dispatched /\ cmd'.tag = "ShowOptions" /\ res' = "ok") =>
        /\ state'.show_options
        /\ options'.items = OptionItems(App)
        /\ options'.selected = RestoredCursor(options, options'.items)
        /\ (steps > 0 /\ cmd.tag = "ShowOptions" /\ options.items = options'.items)
              => options' = options]_vars

\* The category and record the overlay's list was built for: the list of
\* the record view names them in its export item.
ShownFor(list) == <<list.items[7].a, list.items[7].b>>
\* C11: ShowOptions on the record view, with the overlay closed and a
\* record selected other than the one the previous ShowOptions was built
\* for, puts the overlay cursor on the first item.
C11_CursorResetOnNewSelection ==
    [][(/\ Dispatched /\ cmd'.tag = "ShowOptions" /\ res' = "ok"
        /\ tab # "help" /\ ~state.show_options
        /\ Len(options.items) = 28
        /\ IsSome(TableSelected(keys_table))
        /\ ShownFor(options) # <<tab, Unwrap(TableSelected(keys_table)).id>>)
       => options'.selected = Some(0)]_vars

\* The commands that call the engine in-process, and whether the call of
\* the command being dispatched succeeds.
InProcessEngine(command) ==
    \/ command.tag \in {"ExportKeys", "DeleteKey", "SendKey"}
    \/ command.tag = "ImportKeys" /\ command.b = "false" /\ command.a # ""
EngineSucceeded ==
    env'.engine /\ (cmd'.tag = "DeleteKey" => InSeq(gpgme[cmd'.a], cmd'.b))
Refreshed == <<"get_all_keys">> \in calls'
\* C12: a dispatch of ImportKeys (in-process), ExportKeys, DeleteKey or
\* SendKey whose engine call succeeds performs a refresh and ends with a
\* Success message in the prompt.
C12_EngineSuccessRefreshes ==
    [][(Dispatched /\ InProcessEngine(cmd') /\ EngineSucceeded) =>
        /\ Refreshed
        /\ prompt'.output_type = "Success"]_vars

\* C13: a dispatch of ImportKeys, ExportKeys, DeleteKey or SendKey whose
\* engine call fails performs no refresh, leaves the key map, the record
\* table, the cached table states and the tab unchanged, sets a Failure
\* message made of a prefix and the engine's error text, and returns Ok.
C13_EngineFailureReported ==
    [][(Dispatched /\ InProcessEngine(cmd') /\ ~EngineSucceeded) =>
        /\ ~Refreshed
        /\ keys' = keys
        /\ keys_table' = keys_table
        /\ keys_table_states' = keys_table_states
        /\ tab' = tab
        /\ prompt'.output_type = "Failure"
        /\ prompt'.text \in {<<prefix, ErrorText>> :
              prefix \in {"import error: ", "export error: ", "delete error: ", "send error: "}}
        /\ res' = "ok"]_vars
\* A deletion has failed in the engine and the prompt reports it.
C13_Witness ==
    /\ steps > 0
    /\ cmd = Cmd("DeleteKey", "pub", "k1", "")
    /\ ~env.engine
    /\ InSeq(gpgme.pub, "k1")
    /\ prompt.text = <<"delete error: ", ErrorText>>
    /\ prompt.output_type = "Failure"

IsSubprocess(command) ==
    \/ command.tag \in {"GenerateKey", "RefreshKeys", "EditKey", "SignKey"}
    \/ command.tag = "ImportKeys" /\ command.b # "false"
FailedCall ==
    \/ /\ \E call \in calls' : call[1] \in {"import_keys", "export_keys", "delete_key",
                                            "send_key", "get_exported_keys"}
       /\ ~EngineSucceeded
    \/ (\E call \in calls' : call[1] = "spawn") /\ ~env'.spawn
    \/ <<"wait">> \in calls' /\ ~env'.wait
    \/ Refreshed /\ ~env'.list
\* C15: a dispatch in which an external call fails leaves the record table,
\* the tab and the pending confirmation as they were; when the call that
\* fails is the listing of a refresh, mode, prompt, overlay cursor, cached
\* table states, detail level and row margin are unchanged as well.
C15_FailureLeavesState ==
    [][(Dispatched /\ FailedCall) =>
        /\ keys_table' = keys_table
        /\ tab' = tab
        /\ prompt'.command = prompt.command
        /\ (Refreshed /\ ~env'.list) =>
              /\ mode' = mode
              /\ prompt' = prompt
              /\ options'.selected = options.selected
              /\ keys_table_states' = keys_table_states
              /\ keys_table_detail' = keys_table_detail
              /\ keys_table_margin' = keys_table_margin]_vars

ClipboardUnavailable ==
    /\ prompt'.output_type = "Failure"
    /\ prompt'.text = <<"clipboard not available">>
    /\ res' = "ok"
\* C16: without a clipboard, every Copy and every Paste sets the Failure
\* message "clipboard not available" and returns.
C16_NoClipboardReported ==
    [][(Dispatched /\ cmd'.tag \in {"Copy", "Paste"} /\ ~clipboard.present)
        => ClipboardUnavailable]_vars

\* The content of the Copy being dispatched can be computed.
CopyContentOk ==
    /\ IsSome(TableSelected(keys_table))
    /\ cmd'.a = "TableRow" => cmd'.b \in {"1", "2"}
    /\ cmd'.a = "Key" => env'.engine
\* C17: with a clipboard whose set (Copy) or get (Paste) operation fails,
\* the dispatch sets a Failure message and returns.
C17_ClipboardFailureReported ==
    [][(/\ Dispatched /\ clipboard.present /\ ~env'.clip
        /\ \/ cmd'.tag = "Paste"
           \/ cmd'.tag = "Copy" /\ CopyContentOk)
       => prompt'.output_type = "Failure" /\ res' = "ok"]_vars

\* The elapsed times a tick is examined at.
Elapsed == {0, MESSAGE_DURATION, MESSAGE_DURATION + 1, 2 * MESSAGE_DURATION}
\* C18: a tick changes the prompt only if the prompt's clock is set, more
\* than MESSAGE_DURATION ms have elapsed and no confirmation is pending,
\* and then it clears it; it changes nothing but the prompt; and no step
\* other than a dispatch changes the prompt while a confirmation is pending.
C18_TickExpiresMessage ==
    /\ [](\A elapsed \in Elapsed :
            LET after == tick(App, elapsed)
                expires == IsSome(prompt.clock) /\ elapsed > MESSAGE_DURATION
                           /\ IsNone(prompt.command)
            IN  /\ [after EXCEPT !.prompt = prompt] = App
                /\ after.prompt = IF expires THEN PromptClear(prompt) ELSE prompt)
    /\ [][(steps' = steps /\ IsSome(prompt.command)) => prompt' = prompt]_vars
\* A message has expired: the prompt of the ShowOutput dispatched last is
\* empty again.
C18_Witness ==
    /\ steps > 0
    /\ cmd.tag = "ShowOutput"
    /\ prompt = PromptDefault

\* C19: after a refresh whose listing succeeded, the keys are those the
\* engine lists, no table state is cached, the detail level is the minimum,
\* the row margin is 1, the overlay cursor is on the first item, the mode is
\* Normal, and on a record tab the table is a fresh table of the active
\* category's keys.
C19_RefreshResets ==
    [][(Dispatched /\ Refreshed /\ env'.list /\ res' = "ok") =>
        /\ keys' = get_all_keys(gpgme')
        /\ keys_table_states' = [k \in KeyTypes |-> None]
        /\ keys_table_detail' = DetailMinimum
        /\ keys_table_margin' = 1
        /\ options'.selected = Some(0)
        /\ mode' = "Normal"
        /\ tab' # "help" => keys_table' = TableWithItems(get_all_keys(gpgme')[tab'])]_vars
\* A Refresh after a switch to the secret keys, which had cached the state
\* of the public table.
C19_Witness ==
    /\ steps = 2
    /\ prev = Cmd("ListKeys", "sec", "", "")
    /\ cmd = Cmd0("Refresh")
    /\ env.list /\ res = "ok"
    /\ tab = "sec"
    /\ keys_table_states = [k \in KeyTypes |-> None]

\* A scroll of the selection, as opposed to a scroll of the row.
SelectionScroll(command) ==
    command.tag = "Scroll" /\ command.b = "false"
    /\ command.a \in {"Up", "Down", "Top", "Bottom"}
\* C20: after a dispatch the overlay is visible iff the command was
\* ShowOptions, or a selection scroll dispatched with the overlay visible.
C20_OverlayVisibility ==
    [][Dispatched =>
        (state'.show_options <=>
            \/ cmd'.tag = "ShowOptions"
            \/ SelectionScroll(cmd') /\ state.show_options)]_vars
\* C20 for the dispatches that return Ok.
C20_WhenReturning ==
    [][(Dispatched /\ res' = "ok") =>
        (state'.show_options <=>
            \/ cmd'.tag = "ShowOptions"
            \/ SelectionScroll(cmd') /\ state.show_options)]_vars

\* The target of a navigation command: the overlay if it is open, else the
\* help list on the help tab, else the record table.
ScrollTarget ==
    IF state.show_options THEN "options" ELSE IF tab = "help" THEN "help" ELSE "table"
\* C21: a Scroll command, of the selection or of the row, leaves the cursor
\* and scroll state of the two targets it is not routed to unchanged.
C21_ScrollRouted ==
    [][(Dispatched /\ cmd'.tag = "Scroll") =>
        /\ ScrollTarget # "options" => options'.selected = options.selected
        /\ ScrollTarget # "help" => key_bindings' = key_bindings
        /\ ScrollTarget # "table" => keys_table'.state = keys_table.state]_vars
\* C21 for the scrolls of the selection only.
C21_SelectionScrollRouted ==
    [][(Dispatched /\ SelectionScroll(cmd')) =>
        /\ ScrollTarget # "options" => options'.selected = options.selected
        /\ ScrollTarget # "help" => key_bindings' = key_bindings
        /\ ScrollTarget # "table" => keys_table'.state = keys_table.state]_vars

\* C22: a Scroll of the selection routed to the record table that changes
\* the selection index leaves the row scroll offset at 0.
C22_SelectionChangeResetsScroll ==
    [][(/\ Dispatched /\ SelectionScroll(cmd') /\ ScrollTarget = "table"
        /\ keys_table'.state.tui # keys_table.state.tui)
       => keys_table'.state.scroll = 0]_vars
\* C22 for the scrolls by one step, Up and Down.
C22_StepResetsScroll ==
    [][(/\ Dispatched /\ SelectionScroll(cmd') /\ cmd'.a \in {"Up", "Down"}
        /\ ScrollTarget = "table"
        /\ keys_table'.state.tui # keys_table.state.tui)
       => keys_table'.state.scroll = 0]_vars

\* C23: ListKeys(A) dispatched from another tab, A's view having been left
\* with no refresh since, gives A's table the selection index, the scroll
\* offset and the records (with their detail levels) it had when it was left.
C23_CategoryRestored ==
    [][(/\ Dispatched /\ cmd'.tag = "ListKeys" /\ tab # cmd'.a
        /\ IsSome(left[cmd'.a]))
       => /\ keys_table'.state = Unwrap(left[cmd'.a]).state
          /\ keys_table'.default_items = Unwrap(left[cmd'.a]).default_items]_vars
\* The state is as a render pass leaves it: rendering it again, at some
\* terminal width, changes nothing.
AfterRender == \E width \in Widths : render(App, width) = App
\* C24: in search mode, after a render pass, the visible records are the
\* records of default_items whose subkey or user text contains the search
\* string, in their order.
C24_VisibleSetIsFilter ==
    (tab # "help" /\ is_search_enabled(prompt) /\ AfterRender) =>
        Ids(keys_table.items) =
            Ids(SelectSeq(keys_table.default_items,
                          LAMBDA key : IsVisible(key, prompt, state.minimized)))

\* C25: a render pass, at every terminal width, leaves the record table's
\* items and default_items, the option values (the minimized flag among
\* them), the prompt, the tab and the mode as they were.
C25_RenderKeepsState ==
    \A width \in Widths :
        LET after == render(App, width)
        IN  /\ after.keys_table.items = keys_table.items
            /\ after.keys_table.default_items = keys_table.default_items
            /\ after.state = state
            /\ after.keys_table_detail = keys_table_detail
            /\ after.keys_table_margin = keys_table_margin
            /\ after.gpgme = gpgme
            /\ after.prompt = prompt
            /\ after.tab = tab
            /\ after.mode = mode

\* C26: the mode is never Copy while the record table has no items.
C26_NoCopyOnEmptyTable ==
    ~(mode = "Copy" /\ Len(keys_table.items) = 0)

\* C28: a record that is in both items and default_items of the live table
\* has the same detail level in both.
C28_DetailAgrees ==
    \A i \in 1..Len(keys_table.items), j \in 1..Len(keys_table.default_items) :
        keys_table.items[i].id = keys_table.default_items[j].id =>
            keys_table.items[i].detail = keys_table.default_items[j].detail

\* C27: whenever the options overlay is visible its list is not empty and
\* its cursor is present and less than the length of the list.
C27_OverlayCursorInRange ==
    state.show_options =>
        /\ Len(options.items) > 0
        /\ IsSome(options.selected)
        /\ Unwrap(options.selected) < Len(options.items)
\* The overlay opened on the help tab, its cursor moved to the last entry
\* by an overlay scroll.
C27_Witness ==
    /\ cmd.tag = "Scroll" /\ res = "ok"
    /\ state.show_options /\ tab = "help"
    /\ options.selected = Some(Len(options.items) - 1)

\* The last dispatched command is Set(option, value).
LastSet(option) == cmd.tag = "Set" /\ cmd.a = option
====
